---- MODULE Spec2Model ----
(***************************************************************************)
(* Model of the auth API server (Google Sign-In + profile storage):        *)
(* POST /auth/google, GET /me, POST /profile, POST /auth/logout and        *)
(* GET /debug/schema over the app_users relation, with the process-wide    *)
(* column cache and the signed session cookie.                             *)
(*                                                                         *)
(* Text is a sequence of one-character strings, so that trimming,          *)
(* lower-casing, whitespace stripping and splitting are computed the way   *)
(* the code computes them.  NULL stands for JavaScript null/undefined.     *)
(***************************************************************************)
EXTENDS Integers, Sequences, FiniteSets, TLC

VARIABLES schema, appUserColumnsCache, rows, nextId, now, cookie, issued,
          req, res, pre, flights, introspections, cacheWrites

vars == <<schema, appUserColumnsCache, rows, nextId, now, cookie, issued,
          req, res, pre, flights, introspections, cacheWrites>>

----------------------------------------------------------------------------
(* Values *)

NULL == <<"NULL">>


Truthy(v) == v # NULL /\ v # <<>>

IsWhitespace(c) == c = " "

LowerOf(c) ==
  CASE c = "A" -> "a"
    [] c = "B" -> "b"
    [] c = "L" -> "l"
    [] c = "U" -> "u"
    [] c = "S" -> "s"
    [] OTHER -> c

UpperOf(c) ==
  CASE c = "a" -> "A"
    [] c = "b" -> "B"
    [] c = "l" -> "L"
    [] c = "u" -> "U"
    [] c = "s" -> "S"
    [] OTHER -> c

toLowerCase(s) == [i \in 1..Len(s) |-> LowerOf(s[i])]

toUpperCase(s) == [i \in 1..Len(s) |-> UpperOf(s[i])]

RECURSIVE stripWhitespace(_)
stripWhitespace(s) ==
  IF s = <<>> THEN <<>>
  ELSE IF IsWhitespace(Head(s)) THEN stripWhitespace(Tail(s))
  ELSE <<Head(s)>> \o stripWhitespace(Tail(s))

RECURSIVE trimStart(_)
trimStart(s) ==
  IF s # <<>> /\ IsWhitespace(Head(s)) THEN trimStart(Tail(s)) ELSE s

RECURSIVE trimEnd(_)
trimEnd(s) ==
  IF s # <<>> /\ IsWhitespace(s[Len(s)])
  THEN trimEnd(SubSeq(s, 1, Len(s) - 1)) ELSE s

trim(s) == trimEnd(trimStart(s))

RECURSIVE localPart(_)
localPart(s) ==
  IF s = <<>> \/ Head(s) = "@" THEN <<>>
  ELSE <<Head(s)>> \o localPart(Tail(s))

----------------------------------------------------------------------------
(* Bounds of the checked instance *)

MaxTime == 8

MaxFlights == 2

MaxIntrospections == 3

----------------------------------------------------------------------------
(* The relation and the canonical user shape *)

desiredUserFields ==
  <<"id", "email", "name", "picture", "google_sub", "username", "bio",
    "phone", "address_line1", "address_line2", "address_city",
    "address_state", "address_postal", "address_country", "role">>

allowedProfileFields ==
  <<"username", "bio", "phone", "address_line1", "address_line2",
    "address_city", "address_state", "address_postal", "address_country">>

SeqToSet(s) == {s[i] : i \in 1..Len(s)}

Id(n) == <<"id", n>>

NoUser == [missing |-> TRUE]

NoToken == [uid |-> Id(0), exp |-> 0, sig |-> "none"]

NoCache == {"<unset>"}

SessionTTL == 7

signSession(uid, t) == [uid |-> uid, exp |-> t + SessionTTL, sig |-> "app"]

verifySession_earlyExpiry(token, t) ==
  IF token.sig = "app" /\ t + 1 < token.exp
  THEN [ok |-> TRUE, uid |-> token.uid]
  ELSE [ok |-> FALSE, uid |-> Id(0)]

verifySession_lateExpiry(token, t) ==
  IF token.sig = "app" /\ t <= token.exp
  THEN [ok |-> TRUE, uid |-> token.uid]
  ELSE [ok |-> FALSE, uid |-> Id(0)]

verifySession(token, t) ==
  IF token.sig = "app" /\ t < token.exp
  THEN [ok |-> TRUE, uid |-> token.uid]
  ELSE [ok |-> FALSE, uid |-> Id(0)]

(* getAppUserColumns: the cached set when there is one, else one           *)
(* introspection query whose result is cached; a rejected query leaves     *)
(* the cache unset.                                                        *)
getAppUserColumns(cache, dbColumns, fail) ==
  IF cache # NoCache THEN [ok |-> TRUE, columns |-> cache, cache |-> cache]
  ELSE IF fail THEN [ok |-> FALSE, columns |-> {}, cache |-> cache]
  ELSE [ok |-> TRUE, columns |-> dbColumns, cache |-> dbColumns]

normalizeUser_rowOnly(row) == row

normalizeUser(row) ==
  IF row = NoUser THEN NoUser
  ELSE [f \in SeqToSet(desiredUserFields) \cup DOMAIN row |->
          IF f \in DOMAIN row THEN row[f] ELSE NULL]

selectColumns(columns) ==
  {f \in SeqToSet(desiredUserFields) : f \in columns}

Project(row, columns) == [f \in selectColumns(columns) |-> row[f]]

(* select ... from app_users where <field> = <value> limit 1 *)
QueryFirst(table, columns, field, value) ==
  LET hits == {i \in 1..Len(table) : table[i][field] = value}
  IN IF hits = {} THEN NoUser
     ELSE Project(table[CHOOSE i \in hits : \A j \in hits : i <= j], columns)

selectUser(table, columns, field, value, fail) ==
  IF ~("id" \in columns /\ "email" \in columns) \/ fail
  THEN [ok |-> FALSE, user |-> NoUser]
  ELSE [ok |-> TRUE,
        user |-> normalizeUser(QueryFirst(table, columns, field, value))]

(* The store rejects a statement that names a column the relation lacks *)
ColumnsExist(table, names) ==
  \A i \in 1..Len(table) : names \subseteq DOMAIN table[i]

QueryUpdate_allRows(table, sets, id) ==
  [i \in 1..Len(table) |->
     [f \in DOMAIN table[i] |->
        IF f \in DOMAIN sets THEN sets[f] ELSE table[i][f]]]

(* update app_users set <sets> where id = <id> returning <columns> *)
QueryUpdate(table, sets, id) ==
  [i \in 1..Len(table) |->
     IF table[i]["id"] = id
     THEN [f \in DOMAIN table[i] |->
             IF f \in DOMAIN sets THEN sets[f] ELSE table[i][f]]
     ELSE table[i]]

(* insert into app_users (<cols>) values (...): the id is assigned by the  *)
(* store, every column left out of the insert takes null.                  *)
QueryInsert(table, dbColumns, values, n) ==
  Append(table,
         [f \in dbColumns |->
            IF f = "id" THEN Id(n)
            ELSE IF f \in DOMAIN values THEN values[f] ELSE NULL])

----------------------------------------------------------------------------
(* Find-or-create and profile update *)

deriveUsername_keepSpaces(claims) ==
  LET fullName == IF claims.name = NULL THEN NULL ELSE trim(claims.name)
      email == IF claims.email = NULL THEN NULL ELSE trim(claims.email)
  IN IF Truthy(fullName) THEN toLowerCase(fullName)
     ELSE IF ~Truthy(email) THEN NULL
     ELSE IF Truthy(localPart(email)) THEN localPart(email) ELSE NULL

deriveUsername(claims) ==
  LET fullName == IF claims.name = NULL THEN NULL ELSE trim(claims.name)
      email == IF claims.email = NULL THEN NULL ELSE trim(claims.email)
  IN IF Truthy(fullName) THEN stripWhitespace(toLowerCase(fullName))
     ELSE IF ~Truthy(email) THEN NULL
     ELSE IF Truthy(localPart(email)) THEN localPart(email) ELSE NULL

upsertUpdates_alwaysUsername(columns, user, name, picture, googleSub, username) ==
  LET fields ==
        {f \in {"name", "picture", "google_sub", "username"} :
           CASE f = "name" -> "name" \in columns
             [] f = "picture" -> "picture" \in columns
             [] f = "google_sub" -> "google_sub" \in columns /\ Truthy(googleSub)
             [] f = "username" -> "username" \in columns /\ Truthy(username)}
  IN [f \in fields |->
        CASE f = "name" -> name
          [] f = "picture" -> picture
          [] f = "google_sub" -> googleSub
          [] f = "username" -> username]

upsertUpdates_skipNull(columns, user, name, picture, googleSub, username) ==
  LET fields ==
        {f \in {"name", "picture", "google_sub", "username"} :
           CASE f = "name" -> "name" \in columns /\ Truthy(name)
             [] f = "picture" -> "picture" \in columns /\ Truthy(picture)
             [] f = "google_sub" -> "google_sub" \in columns /\ Truthy(googleSub)
             [] f = "username" ->
                  "username" \in columns /\ ~Truthy(user["username"])
                  /\ Truthy(username)}
  IN [f \in fields |->
        CASE f = "name" -> name
          [] f = "picture" -> picture
          [] f = "google_sub" -> googleSub
          [] f = "username" -> username]

(* The set-list of the update branch of upsertUserByEmail *)
upsertUpdates(columns, user, name, picture, googleSub, username) ==
  LET fields ==
        {f \in {"name", "picture", "google_sub", "username"} :
           CASE f = "name" -> "name" \in columns
             [] f = "picture" -> "picture" \in columns
             [] f = "google_sub" -> "google_sub" \in columns /\ Truthy(googleSub)
             [] f = "username" ->
                  "username" \in columns /\ ~Truthy(user["username"])
                  /\ Truthy(username)}
  IN [f \in fields |->
        CASE f = "name" -> name
          [] f = "picture" -> picture
          [] f = "google_sub" -> googleSub
          [] f = "username" -> username]

upsertInsertValues_noPicture(columns, email, name, picture, googleSub, username) ==
  LET fields ==
        {f \in {"email", "name", "google_sub", "username", "role"} :
           CASE f = "email" -> TRUE
             [] f = "username" -> "username" \in columns /\ Truthy(username)
             [] OTHER -> f \in columns}
  IN [f \in fields |->
        CASE f = "email" -> email
          [] f = "name" -> name
          [] f = "google_sub" -> googleSub
          [] f = "username" -> username
          [] f = "role" -> <<"u", "s", "e", "r">>]

(* The column list and values of the insert branch of upsertUserByEmail *)
upsertInsertValues(columns, email, name, picture, googleSub, username) ==
  LET fields ==
        {f \in {"email", "name", "picture", "google_sub", "username", "role"} :
           CASE f = "email" -> TRUE
             [] f = "username" -> "username" \in columns /\ Truthy(username)
             [] OTHER -> f \in columns}
  IN [f \in fields |->
        CASE f = "email" -> email
          [] f = "name" -> name
          [] f = "picture" -> picture
          [] f = "google_sub" -> googleSub
          [] f = "username" -> username
          [] f = "role" -> <<"u", "s", "e", "r">>]

upsertUserByEmail_optionalSub(table, columns, n, email, name, picture, googleSub, username, failSelect, failWrite) ==
  LET failed(q) ==
        [ok |-> FALSE, table |-> table, nextId |-> n, user |-> NoUser,
         queries |-> q]
      found == selectUser(table, columns, "email", email, failSelect)
      user == found.user
      sets == upsertUpdates(columns, user, name, picture, googleSub, username)
      updated == QueryUpdate(table, sets, user["id"])
      inserted ==
        QueryInsert(table, columns,
                    upsertInsertValues(columns, email, name, picture,
                                       googleSub, username), n)
  IN IF ~("id" \in columns /\ "email" \in columns) THEN failed(0)
     ELSE IF ~found.ok THEN failed(1)
     ELSE IF user # NoUser THEN
       IF DOMAIN sets = {} THEN
         [ok |-> TRUE, table |-> table, nextId |-> n, user |-> user,
          queries |-> 1]
       ELSE IF failWrite \/ ~ColumnsExist(table, DOMAIN sets) THEN failed(2)
       ELSE [ok |-> TRUE, table |-> updated, nextId |-> n,
             user |-> normalizeUser(
                        QueryFirst(updated, columns, "id", user["id"])),
             queries |-> 2]
     ELSE IF failWrite THEN failed(2)
     ELSE [ok |-> TRUE, table |-> inserted, nextId |-> n + 1,
           user |-> normalizeUser(QueryFirst(inserted, columns, "id", Id(n))),
           queries |-> 2]

(* upsertUserByEmail against the discovered columns; failSelect and        *)
(* failWrite say whether the store rejects the select or the write, and    *)
(* queries counts the statements on app_users the call has issued.         *)
upsertUserByEmail(table, columns, n, email, name, picture, googleSub, username, failSelect, failWrite) ==
  LET failed(q) ==
        [ok |-> FALSE, table |-> table, nextId |-> n, user |-> NoUser,
         queries |-> q]
      found == selectUser(table, columns, "email", email, failSelect)
      user == found.user
      sets == upsertUpdates(columns, user, name, picture, googleSub, username)
      updated == QueryUpdate(table, sets, user["id"])
      inserted ==
        QueryInsert(table, columns,
                    upsertInsertValues(columns, email, name, picture,
                                       googleSub, username), n)
  IN IF ~("id" \in columns /\ "email" \in columns) THEN failed(0)
     ELSE IF "google_sub" \in columns /\ ~Truthy(googleSub) THEN failed(0)
     ELSE IF ~found.ok THEN failed(1)
     ELSE IF user # NoUser THEN
       IF DOMAIN sets = {} THEN
         [ok |-> TRUE, table |-> table, nextId |-> n, user |-> user,
          queries |-> 1]
       ELSE IF failWrite \/ ~ColumnsExist(table, DOMAIN sets) THEN failed(2)
       ELSE [ok |-> TRUE, table |-> updated, nextId |-> n,
             user |-> normalizeUser(
                        QueryFirst(updated, columns, "id", user["id"])),
             queries |-> 2]
     ELSE IF failWrite THEN failed(2)
     ELSE [ok |-> TRUE, table |-> inserted, nextId |-> n + 1,
           user |-> normalizeUser(QueryFirst(inserted, columns, "id", Id(n))),
           queries |-> 2]

profileSets_noColumnFilter(columns, updates) ==
  [f \in {g \in SeqToSet(allowedProfileFields) : g \in DOMAIN updates}
     |-> updates[f]]

profileSets_noWhitelist(columns, updates) ==
  [f \in {g \in columns : g \in DOMAIN updates} |-> updates[f]]

profileSets_skipNull(columns, updates) ==
  [f \in {g \in SeqToSet(allowedProfileFields) :
            g \in columns /\ g \in DOMAIN updates /\ updates[g] # NULL}
     |-> updates[f]]

profileSets_withRole(columns, updates) ==
  [f \in {g \in SeqToSet(allowedProfileFields) \cup {"role"} :
            g \in columns /\ g \in DOMAIN updates} |-> updates[f]]

(* The set-list of updateUserProfile: the whitelisted fields whose column  *)
(* exists and which the request object has as an own property.             *)
profileSets(columns, updates) ==
  [f \in {g \in SeqToSet(allowedProfileFields) :
            g \in columns /\ g \in DOMAIN updates} |-> updates[f]]

updateUserProfile(table, columns, userId, updates, fail) ==
  LET sets == profileSets(columns, updates)
      found == selectUser(table, columns, "id", userId, fail)
      updated == QueryUpdate(table, sets, userId)
  IN IF DOMAIN sets = {} THEN
       [ok |-> found.ok, table |-> table, user |-> found.user]
     ELSE IF fail \/ "id" \notin columns
             \/ ~ColumnsExist(table, DOMAIN sets) THEN
       [ok |-> FALSE, table |-> table, user |-> NoUser]
     ELSE [ok |-> TRUE, table |-> updated,
           user |-> normalizeUser(QueryFirst(updated, columns, "id", userId))]

----------------------------------------------------------------------------
(* Enrichment from the people-data API *)

NoPeople == [missing |-> TRUE]

NoAddress == [missing |-> TRUE]

Coalesce(a, b) == IF a # NULL THEN a ELSE b

(* fetchPeopleProfile: response.kind is "throw" (fetch or body parsing     *)
(* rejects), "notok" (non-success status) or "ok" with the parsed data.    *)
fetchPeopleProfile(accessToken, response) ==
  LET data == response.data
      phoneNumber ==
        IF Len(data.phoneNumbers) = 0 THEN NULL ELSE data.phoneNumbers[1]
      addr == IF Len(data.addresses) = 0 THEN NoAddress ELSE data.addresses[1]
      code == Coalesce(addr.countryCode, addr.country)
      address ==
        IF addr = NoAddress THEN NoAddress
        ELSE [line1 |-> addr.streetAddress,
              line2 |-> addr.extendedAddress,
              city |-> addr.city,
              state |-> addr.region,
              postal |-> addr.postalCode,
              country |-> IF code = NULL THEN NULL ELSE toUpperCase(code)]
  IN IF ~Truthy(accessToken) THEN [ok |-> TRUE, people |-> NoPeople]
     ELSE IF response.kind = "throw" THEN [ok |-> FALSE, people |-> NoPeople]
     ELSE IF response.kind = "notok" THEN [ok |-> TRUE, people |-> NoPeople]
     ELSE [ok |-> TRUE,
           people |-> [phoneNumber |-> phoneNumber, address |-> address]]

isBlank(value) == value = NULL \/ value = <<>>

addressFieldOf(column) ==
  CASE column = "address_line1" -> "line1"
    [] column = "address_line2" -> "line2"
    [] column = "address_city" -> "city"
    [] column = "address_state" -> "state"
    [] column = "address_postal" -> "postal"
    [] column = "address_country" -> "country"

addressColumns ==
  {"address_line1", "address_line2", "address_city", "address_state",
   "address_postal", "address_country"}

prefills_ignoreStored(user, people, column) ==
  IF column = "phone" THEN Truthy(people.phoneNumber)
  ELSE /\ people.address # NoAddress
       /\ Truthy(people.address[addressFieldOf(column)])

(* Whether buildPrefillUpdates puts the column into the update object *)
prefills(user, people, column) ==
  IF column = "phone"
  THEN Truthy(people.phoneNumber) /\ isBlank(user["phone"])
  ELSE /\ people.address # NoAddress
       /\ Truthy(people.address[addressFieldOf(column)])
       /\ isBlank(user[column])

buildPrefillUpdates(user, people) ==
  IF user = NoUser \/ people = NoPeople THEN [f \in {} |-> NULL]
  ELSE [f \in {c \in {"phone"} \cup addressColumns : prefills(user, people, c)}
          |-> IF f = "phone" THEN people.phoneNumber
              ELSE people.address[addressFieldOf(f)]]

----------------------------------------------------------------------------
(* HTTP handlers, as functions of the request and the server state.  Each  *)
(* returns the response (status, user, cookie set) and the new store.      *)
(* failAt names the store query that rejects during the request: "none",   *)
(* "columns" (schema introspection), "select" (the lookup by email or by   *)
(* id of /me), "write" (the upsert's update/insert, or the query of        *)
(* /profile) or "prefill" (the enrichment update).                         *)

Reply(status, user, token, table, n, cache) ==
  [status |-> status, user |-> user, cookie |-> token, table |-> table,
   nextId |-> n, cache |-> cache]

NoIdToken == [valid |-> FALSE, missing |-> TRUE]

emailVerified_anyFlag(claims) == claims.email_verified # "false"

emailVerified(claims) == claims.email_verified = "true"

(* app.post("/auth/google") *)
authGoogle(table, n, cache, dbColumns, t, idToken, accessToken, response, failAt) ==
  LET claims == idToken.claims
      cols == getAppUserColumns(cache, dbColumns, failAt = "columns")
      up == upsertUserByEmail(table, cols.columns, n, claims.email,
                              claims.name, claims.picture, claims.sub,
                              deriveUsername(claims), failAt = "select",
                              failAt = "write")
      fetched == fetchPeopleProfile(accessToken, response)
      updates == buildPrefillUpdates(up.user, fetched.people)
      filled == updateUserProfile(up.table, cols.columns, up.user["id"],
                                  updates, failAt = "prefill")
  IN IF idToken = NoIdToken THEN Reply(400, NoUser, NoToken, table, n, cache)
     ELSE IF ~idToken.valid THEN Reply(401, NoUser, NoToken, table, n, cache)
     ELSE IF ~Truthy(claims.email)
       THEN Reply(401, NoUser, NoToken, table, n, cache)
     ELSE IF ~emailVerified(claims)
       THEN Reply(401, NoUser, NoToken, table, n, cache)
     ELSE IF ~cols.ok THEN Reply(401, NoUser, NoToken, table, n, cols.cache)
     ELSE IF ~up.ok
       THEN Reply(401, NoUser, NoToken, up.table, up.nextId, cols.cache)
     ELSE IF up.user = NoUser \/ up.user["id"] = NULL
       THEN Reply(500, NoUser, NoToken, up.table, up.nextId, cols.cache)
     ELSE IF ~Truthy(accessToken)
       THEN Reply(200, up.user, signSession(up.user["id"], t), up.table,
                  up.nextId, cols.cache)
     ELSE IF ~fetched.ok
       THEN Reply(401, NoUser, NoToken, up.table, up.nextId, cols.cache)
     ELSE IF DOMAIN updates = {}
       THEN Reply(200, up.user, signSession(up.user["id"], t), up.table,
                  up.nextId, cols.cache)
     ELSE IF ~filled.ok
       THEN Reply(401, NoUser, NoToken, up.table, up.nextId, cols.cache)
     ELSE Reply(200, filled.user, signSession(filled.user["id"], t),
                filled.table, up.nextId, cols.cache)

(* app.get("/me") *)
getMe(table, n, cache, dbColumns, t, token, failAt) ==
  LET payload == verifySession(token, t)
      cols == getAppUserColumns(cache, dbColumns, failAt = "columns")
      found == selectUser(table, cols.columns, "id", payload.uid,
                          failAt = "select")
  IN IF token = NoToken THEN Reply(401, NoUser, NoToken, table, n, cache)
     ELSE IF ~payload.ok THEN Reply(401, NoUser, NoToken, table, n, cache)
     ELSE IF ~cols.ok THEN Reply(401, NoUser, NoToken, table, n, cols.cache)
     ELSE IF ~found.ok THEN Reply(401, NoUser, NoToken, table, n, cols.cache)
     ELSE IF found.user = NoUser
       THEN Reply(401, NoUser, NoToken, table, n, cols.cache)
     ELSE Reply(200, found.user, NoToken, table, n, cols.cache)

(* app.post("/profile") *)
postProfile(table, n, cache, dbColumns, t, token, body, failAt) ==
  LET payload == verifySession(token, t)
      cols == getAppUserColumns(cache, dbColumns, failAt = "columns")
      upd == updateUserProfile(table, cols.columns, payload.uid, body,
                               failAt = "write")
  IN IF token = NoToken THEN Reply(401, NoUser, NoToken, table, n, cache)
     ELSE IF ~payload.ok THEN Reply(400, NoUser, NoToken, table, n, cache)
     ELSE IF ~cols.ok THEN Reply(400, NoUser, NoToken, table, n, cols.cache)
     ELSE IF ~upd.ok THEN Reply(400, NoUser, NoToken, table, n, cols.cache)
     ELSE IF upd.user = NoUser
       THEN Reply(401, NoUser, NoToken, upd.table, n, cols.cache)
     ELSE Reply(200, upd.user, NoToken, upd.table, n, cols.cache)

(* app.get("/debug/schema") *)
debugSchema(table, n, cache, dbColumns, failAt) ==
  LET cols == getAppUserColumns(cache, dbColumns, failAt = "columns")
  IN IF ~cols.ok THEN Reply(500, NoUser, NoToken, table, n, cols.cache)
     ELSE Reply(200, NoUser, NoToken, table, n, cols.cache)

----------------------------------------------------------------------------------------------------------------------------------------
(* Requests of the checked instances *)

Email1 == <<"a", "@", "x">>

Email2 == <<"b", "@", "x">>

FullName == <<"A", " ", "b">>

Picture == <<"p">>

SubOf(email) == <<"g", Head(email)>>

Claims(email, verified, name, picture, sub) ==
  [email |-> email, email_verified |-> verified, name |-> name,
   picture |-> picture, sub |-> sub]

IdToken(valid, claims) == [valid |-> valid, claims |-> claims]

VerifiedClaims ==
  {Claims(Email1, "true", FullName, Picture, SubOf(Email1)),
   Claims(Email1, "true", NULL, NULL, SubOf(Email1)),
   Claims(Email2, "true", FullName, NULL, SubOf(Email2)),
   Claims(Email2, "true", NULL, Picture, NULL)}

UnverifiedClaims ==
  {Claims(Email1, "false", FullName, Picture, SubOf(Email1)),
   Claims(Email2, "absent", NULL, NULL, SubOf(Email2))}

RejectedIdTokens ==
  {NoIdToken,
   IdToken(FALSE, Claims(Email1, "true", NULL, NULL, NULL)),
   IdToken(TRUE, Claims(NULL, "true", FullName, NULL, SubOf(Email1)))}
  \cup {IdToken(TRUE, c) : c \in UnverifiedClaims}

IdTokens == RejectedIdTokens \cup {IdToken(TRUE, c) : c \in VerifiedClaims}

AccessToken == <<"t">>

Address(country, code, locality) ==
  [streetAddress |-> NULL, extendedAddress |-> <<>>, city |-> locality,
   region |-> NULL, postalCode |-> NULL, countryCode |-> code,
   country |-> country]

NoData == [phoneNumbers |-> <<>>, addresses |-> <<>>]

NoResponse == [kind |-> "none", data |-> NoData]

PeopleResponses ==
  {[kind |-> "throw", data |-> NoData],
   [kind |-> "notok", data |-> NoData],
   [kind |-> "ok",
    data |-> [phoneNumbers |-> <<<<"7">>, <<"8">>>>,
              addresses |-> <<Address(<<"s", "a">>, <<"u", "s">>, NULL)>>]],
   [kind |-> "ok",
    data |-> [phoneNumbers |-> <<NULL>>,
              addresses |-> <<Address(<<"s", "a">>, NULL, NULL)>>]]}

EmptyBody == [f \in {} |-> NULL]

ProfileBodies ==
  {EmptyBody,
   [username |-> <<"u">>],
   [username |-> NULL, phone |-> <<"5">>],
   [phone |-> <<>>, address_country |-> <<"S", "A">>],
   [role |-> <<"a", "d", "m", "i", "n">>, id |-> Id(2)]}

AllColumns == SeqToSet(desiredUserFields) \cup {"created_at"}

Schemas ==
  {AllColumns \ d :
     d \in {{}, {"id"}, {"username", "phone"}, {"google_sub", "role"},
            {"name", "picture", "address_country", "bio"}}}

ForgedTokens ==
  {[uid |-> Id(1), exp |-> MaxTime + SessionTTL, sig |-> "forged"],
   [uid |-> Id(0), exp |-> 0, sig |-> "malformed"]}

----------------------------------------------------------------------------
(* The server and its clients.  cookie is the browser's session cookie,    *)
(* issued the copy a client keeps of the last cookie the server set; req,  *)
(* res and pre record the request being answered, its response and the     *)
(* table before it, until the client has received the response.            *)

Request(op, idToken, accessToken, response, token, body, failAt) ==
  [op |-> op, idToken |-> idToken, accessToken |-> accessToken,
   response |-> response, token |-> token, body |-> body, failAt |-> failAt]

NoRequest ==
  Request("none", NoIdToken, NULL, NoResponse, NoToken, EmptyBody, "none")

Response(status, user, token) ==
  [status |-> status, user |-> user, cookie |-> token]

NoResponseYet == Response(0, NoUser, NoToken)

(* Requests whose handler is followed await by await (flights), beside the *)
(* requests answered in one step.  A flight keeps the handler's locals:    *)
(* the columns and the user it holds, the edits POST /profile has stored   *)
(* in that user's row since the flight read it, and whether a write of the *)
(* flight has replaced such an edit.  introspections and cacheWrites count *)
(* the schema queries issued and the assignments of the cache by flights.  *)
Slots == 1..MaxFlights

Idle ==
  [pc |-> "idle", idToken |-> NoIdToken, response |-> NoResponse,
   columns |-> NoCache, user |-> NoUser, status |-> 0, edits |-> EmptyBody,
   clobbered |-> FALSE]

NoFlights ==
  /\ flights = [p \in Slots |-> Idle]
  /\ introspections = 0
  /\ cacheWrites = 0

InitOn(schemas) ==
  /\ schema \in schemas
  /\ appUserColumnsCache = NoCache
  /\ rows = <<>>
  /\ nextId = 1
  /\ now = 0
  /\ cookie = NoToken
  /\ issued = NoToken
  /\ req = NoRequest
  /\ res = NoResponseYet
  /\ pre = <<>>
  /\ NoFlights

Init == InitOn(Schemas)

(* The edits a flight has on record after a one-step request: those of a   *)
(* successful POST /profile for the user the flight holds, made while the  *)
(* flight is between reading that user's row and its last write, are       *)
(* added; a field stored blank is no longer an edit.                       *)
Witnessed(flight, request, reply) ==
  IF /\ request.op = "profile"
     /\ reply.status = 200
     /\ flight.pc \in {"write", "fetch", "prefill"}
     /\ flight.user # NoUser
     /\ flight.user["id"] = request.token.uid
  THEN LET stored == profileSets(flight.columns, request.body)
           kept == {f \in DOMAIN flight.edits : f \notin DOMAIN stored}
           added == {f \in DOMAIN stored : Truthy(stored[f])}
       IN [flight EXCEPT
             !.edits = [f \in kept \cup added |->
                          IF f \in added THEN stored[f] ELSE flight.edits[f]]]
  ELSE flight

(* One request is answered at a time: the handler runs to completion and   *)
(* its response stays on record until Receive.                             *)
Serve(request, reply) ==
  /\ req = NoRequest
  /\ req' = request
  /\ res' = Response(reply.status, reply.user, reply.cookie)
  /\ pre' = rows
  /\ rows' = reply.table
  /\ nextId' = reply.nextId
  /\ appUserColumnsCache' = reply.cache
  /\ flights' = [p \in Slots |-> Witnessed(flights[p], request, reply)]
  /\ UNCHANGED <<introspections, cacheWrites>>

(* The store can reject the introspection query only when it is issued *)
Reaches(failAt) == failAt = "columns" => appUserColumnsCache = NoCache

AuthGoogle(idTokens, responses) ==
  \E idToken \in idTokens, response \in responses \cup {NoResponse},
     failAt \in {"none", "columns", "select", "write", "prefill"} :
    /\ Reaches(failAt)
    /\ idToken \in RejectedIdTokens => failAt = "none"
    /\ failAt = "prefill" => (response # NoResponse /\ response.kind = "ok")
    /\ LET accessToken == IF response = NoResponse THEN NULL ELSE AccessToken
           reply == authGoogle(rows, nextId, appUserColumnsCache, schema, now,
                               idToken, accessToken, response, failAt)
       IN /\ Serve(Request("auth", idToken, accessToken, response, NoToken,
                           EmptyBody, failAt), reply)
          /\ cookie' = IF reply.cookie # NoToken THEN reply.cookie ELSE cookie
          /\ issued' = IF reply.cookie # NoToken THEN reply.cookie ELSE issued
    /\ UNCHANGED <<schema, now>>

SessionCookies == {NoToken, cookie, issued} \cup ForgedTokens

Me ==
  \E token \in SessionCookies, failAt \in {"none", "columns", "select"} :
    /\ Reaches(failAt)
    /\ Serve(Request("me", NoIdToken, NULL, NoResponse, token, EmptyBody,
                     failAt),
             getMe(rows, nextId, appUserColumnsCache, schema, now, token,
                   failAt))
    /\ UNCHANGED <<schema, now, cookie, issued>>

Profile(bodies) ==
  \E token \in SessionCookies, body \in bodies,
     failAt \in {"none", "columns", "write"} :
    /\ Reaches(failAt)
    /\ Serve(Request("profile", NoIdToken, NULL, NoResponse, token, body,
                     failAt),
             postProfile(rows, nextId, appUserColumnsCache, schema, now,
                         token, body, failAt))
    /\ UNCHANGED <<schema, now, cookie, issued>>

(* app.post("/auth/logout"): clears the cookie, touches no store state *)
Logout ==
  /\ Serve(Request("logout", NoIdToken, NULL, NoResponse, NoToken, EmptyBody,
                   "none"),
           Reply(200, NoUser, NoToken, rows, nextId, appUserColumnsCache))
  /\ cookie' = NoToken
  /\ UNCHANGED <<schema, now, issued>>

DebugSchema ==
  \E failAt \in {"none", "columns"} :
    /\ Reaches(failAt)
    /\ Serve(Request("schema", NoIdToken, NULL, NoResponse, NoToken,
                     EmptyBody, failAt),
             debugSchema(rows, nextId, appUserColumnsCache, schema, failAt))
    /\ UNCHANGED <<schema, now, cookie, issued>>

(* The client receives the response *)
Receive ==
  /\ req # NoRequest
  /\ req' = NoRequest
  /\ res' = NoResponseYet
  /\ pre' = <<>>
  /\ UNCHANGED <<schema, appUserColumnsCache, rows, nextId, now, cookie,
                 issued, flights, introspections, cacheWrites>>

(* Time passes between requests *)
Tick(limit) ==
  /\ req = NoRequest
  /\ now < limit
  /\ now' = now + 1
  /\ UNCHANGED <<schema, appUserColumnsCache, rows, nextId, cookie, issued,
                 req, res, pre, flights, introspections, cacheWrites>>

(* Logins without enrichment, profile edits and session reads, over every  *)
(* schema of the instance.                                                 *)
Next ==
  \/ AuthGoogle(IdTokens, {})
  \/ Me
  \/ Profile(ProfileBodies)
  \/ Logout
  \/ DebugSchema
  \/ Receive

Spec == Init /\ [][Next]_vars

(* Logins with an access token: the enrichment step against every         *)
(* people-data response of the instance, between profile edits.            *)
EnrichSchemas ==
  {AllColumns, AllColumns \ {"username", "phone"},
   AllColumns \ {"address_country", "bio"}}

EnrichIdTokens ==
  {IdToken(TRUE, Claims(Email1, "true", FullName, Picture, SubOf(Email1))),
   IdToken(TRUE, Claims(Email2, "true", NULL, NULL, SubOf(Email2))),
   IdToken(TRUE, Claims(Email1, "false", FullName, Picture, SubOf(Email1)))}

EnrichBodies ==
  {[phone |-> <<"5">>],
   [phone |-> <<>>, address_country |-> <<"S", "A">>],
   [address_city |-> <<"c">>, address_country |-> NULL]}

EnrichInit == InitOn(EnrichSchemas)

EnrichNext ==
  \/ AuthGoogle(EnrichIdTokens, PeopleResponses)
  \/ Profile(EnrichBodies)
  \/ Receive

EnrichSpec == EnrichInit /\ [][EnrichNext]_vars

(* Sessions over time: cookies issued, kept, cleared and expiring *)
SessionIdTokens ==
  {IdToken(TRUE, Claims(Email1, "true", FullName, Picture, SubOf(Email1))),
   IdToken(TRUE, Claims(Email2, "true", NULL, NULL, SubOf(Email2)))}

SessionBodies == {EmptyBody, [username |-> <<"u">>]}

SessionInit == InitOn({AllColumns})

SessionNext ==
  \/ AuthGoogle(SessionIdTokens, {})
  \/ Me
  \/ Profile(SessionBodies)
  \/ Logout
  \/ Receive
  \/ Tick(MaxTime)

SessionSpec == SessionInit /\ [][SessionNext]_vars

(* First and repeat logins with names that need trimming, lower-casing and *)
(* stripping, over schemas that lack the columns a login writes, starting  *)
(* from an empty relation or from one that already holds an administrator. *)
AdaLovelace == <<"A", "d", "a", " ", "L", "o", "v", "e", "l", "a", "c", "e">>

PaddedName == <<" ", "A", " ", " ", "b", " ">>

BlankName == <<" ", " ">>

Email3 == <<"B", "o", "@", "x">>

LoginSchemas ==
  {AllColumns, AllColumns \ {"name", "picture", "google_sub", "username"},
   AllColumns \ {"username", "role"}, AllColumns \ {"email"}}

LoginIdTokens ==
  {NoIdToken,
   IdToken(TRUE, Claims(Email1, "true", AdaLovelace, Picture, SubOf(Email1))),
   IdToken(TRUE, Claims(Email1, "true", NULL, NULL, SubOf(Email1))),
   IdToken(TRUE, Claims(Email1, "true", PaddedName, NULL, NULL)),
   IdToken(TRUE, Claims(Email3, "true", BlankName, Picture, SubOf(Email3)))}

LoginBodies == {[username |-> <<>>], [username |-> <<"u">>, bio |-> <<"b">>]}

Administrator == <<"a", "d", "m", "i", "n">>

(* A row provisioned before the server started *)
SeededRow(columns) ==
  [f \in columns |->
     CASE f = "id" -> Id(1)
       [] f = "email" -> Email1
       [] f = "role" -> Administrator
       [] f = "google_sub" -> <<"g", "0">>
       [] f = "bio" -> <<"b">>
       [] OTHER -> NULL]

LoginInit ==
  /\ schema \in LoginSchemas
  /\ appUserColumnsCache = NoCache
  /\ \/ rows = <<>> /\ nextId = 1
     \/ rows = <<SeededRow(schema)>> /\ nextId = 2
  /\ now = 0
  /\ cookie = NoToken
  /\ issued = NoToken
  /\ req = NoRequest
  /\ res = NoResponseYet
  /\ pre = <<>>
  /\ NoFlights

LoginNext ==
  \/ AuthGoogle(LoginIdTokens, {})
  \/ Profile(LoginBodies)
  \/ Receive

LoginSpec == LoginInit /\ [][LoginNext]_vars

(* Two users signing in one after the other, session reads and profile    *)
(* edits with the cookie of the last login, over a table that may hold a   *)
(* row of a third user; the browser may start with a session that was      *)
(* signed for a row the table no longer holds.                             *)
IsolationSchemas == {AllColumns, AllColumns \ {"username"}}

IsolationIdTokens ==
  {IdToken(TRUE, Claims(Email2, "true", FullName, Picture, SubOf(Email2))),
   IdToken(TRUE, Claims(Email3, "true", NULL, NULL, SubOf(Email3)))}

IsolationBodies ==
  {EmptyBody, [username |-> <<"u">>], [bio |-> <<"z">>, id |-> Id(1)]}

Orphan == signSession(Id(9), 0)

IsolationInit ==
  /\ schema \in IsolationSchemas
  /\ appUserColumnsCache = NoCache
  /\ \/ rows = <<>> /\ nextId = 1
     \/ rows = <<SeededRow(schema)>> /\ nextId = 2
  /\ now = 0
  /\ cookie \in {NoToken, Orphan}
  /\ issued = cookie
  /\ req = NoRequest
  /\ res = NoResponseYet
  /\ pre = <<>>
  /\ NoFlights

IsolationNext ==
  \/ AuthGoogle(IsolationIdTokens, {})
  \/ Me
  \/ Profile(IsolationBodies)
  \/ Logout
  \/ Receive

IsolationSpec == IsolationInit /\ [][IsolationNext]_vars

(* Logins with and without enrichment and profile edits whose body names  *)
(* columns outside the editable ones, over a table that may hold a row     *)
(* provisioned with another role.                                           *)
FrameSchemas == {AllColumns, AllColumns \ {"role", "phone"}}

FrameIdTokens ==
  {IdToken(TRUE, Claims(Email1, "true", FullName, Picture, SubOf(Email1))),
   IdToken(TRUE, Claims(Email2, "true", NULL, NULL, SubOf(Email2)))}

FrameResponses ==
  {[kind |-> "ok",
    data |-> [phoneNumbers |-> <<<<"7">>>>,
              addresses |-> <<Address(NULL, <<"u", "s">>, NULL)>>]]}

Moderator == <<"m", "o", "d">>

FrameBodies ==
  {[role |-> Moderator, email |-> Email3, id |-> Id(9),
    google_sub |-> <<"g", "9">>, name |-> <<"n">>, picture |-> <<"q">>,
    username |-> <<"u">>],
   [phone |-> <<"5">>, role |-> Moderator]}

FrameInit ==
  /\ schema \in FrameSchemas
  /\ appUserColumnsCache = NoCache
  /\ \/ rows = <<>> /\ nextId = 1
     \/ rows = <<SeededRow(schema)>> /\ nextId = 2
  /\ now = 0
  /\ cookie = NoToken
  /\ issued = NoToken
  /\ req = NoRequest
  /\ res = NoResponseYet
  /\ pre = <<>>
  /\ NoFlights

FrameNext ==
  \/ AuthGoogle(FrameIdTokens, FrameResponses)
  \/ Profile(FrameBodies)
  \/ Receive

FrameSpec == FrameInit /\ [][FrameNext]_vars

----------------------------------------------------------------------------
(* Logins followed await by await.  A flight is one POST /auth/google      *)
(* whose assertion has verified; each action below is the handler's code    *)
(* between two awaits, so flights interleave with each other and with the   *)
(* requests answered in one step exactly where the event loop lets them.    *)

UniqueEmail_none(table, email) == TRUE

(* The uniqueness constraint of app_users on email: an insert is accepted  *)
(* only while no row holds the email.                                       *)
UniqueEmail(table, email) == \A i \in 1..Len(table) : table[i]["email"] # email

Failed(flight, status) == [flight EXCEPT !.pc = "done", !.status = status]

(* The schema checks of upsertUserByEmail, once it holds the columns *)
Checked(flight, columns) ==
  LET held == [flight EXCEPT !.columns = columns]
  IN IF ~("id" \in columns /\ "email" \in columns) THEN Failed(held, 401)
     ELSE IF "google_sub" \in columns /\ ~Truthy(flight.idToken.claims.sub)
       THEN Failed(held, 401)
     ELSE [held EXCEPT !.pc = "select"]

(* Whether a write of the set-list replaces an edit the flight has on      *)
(* record with another value.                                               *)
Clobbers(edits, sets) ==
  \E f \in DOMAIN edits \cap DOMAIN sets : sets[f] # edits[f]

(* The handler signs the session, sets the cookie and answers 200 *)
Finished(p, flight, user) ==
  /\ flights' = [flights EXCEPT
                   ![p] = [flight EXCEPT !.pc = "done", !.status = 200,
                                         !.user = user]]
  /\ cookie' = signSession(user["id"], now)
  /\ issued' = signSession(user["id"], now)

(* The assertion verifies and carries a verified email: the handler calls  *)
(* upsertUserByEmail.  Slots are taken lowest first.                        *)
Begin(p, idTokens, responses) ==
  \E idToken \in idTokens, response \in responses \cup {NoResponse} :
    /\ flights[p].pc \in {"idle", "done"}
    /\ \A q \in Slots : q < p => flights[q].pc \notin {"idle", "done"}
    /\ idToken # NoIdToken
    /\ idToken.valid
    /\ Truthy(idToken.claims.email)
    /\ emailVerified(idToken.claims)
    /\ flights' = [flights EXCEPT
                     ![p] = [Idle EXCEPT !.pc = "columns",
                                         !.idToken = idToken,
                                         !.response = response]]
    /\ UNCHANGED <<schema, appUserColumnsCache, rows, nextId, now, cookie,
                   issued, req, res, pre, introspections, cacheWrites>>

GetColumns_alwaysQuery(p) ==
  /\ flights[p].pc = "columns"
  /\ flights' = [flights EXCEPT ![p].pc = "introspect"]
  /\ introspections' = introspections + 1
  /\ UNCHANGED <<schema, appUserColumnsCache, rows, nextId, now, cookie,
                 issued, req, res, pre, cacheWrites>>

(* getAppUserColumns up to its await: the cached set is returned, or the   *)
(* introspection query is issued.                                           *)
GetColumns(p) ==
  /\ flights[p].pc = "columns"
  /\ IF appUserColumnsCache # NoCache
     THEN /\ flights' = [flights EXCEPT
                           ![p] = Checked(flights[p], appUserColumnsCache)]
          /\ UNCHANGED introspections
     ELSE /\ flights' = [flights EXCEPT ![p].pc = "introspect"]
          /\ introspections' = introspections + 1
  /\ UNCHANGED <<schema, appUserColumnsCache, rows, nextId, now, cookie,
                 issued, req, res, pre, cacheWrites>>

(* The introspection query resolves: the cache is assigned *)
Introspected(p) ==
  /\ flights[p].pc = "introspect"
  /\ appUserColumnsCache' = schema
  /\ cacheWrites' = cacheWrites + 1
  /\ flights' = [flights EXCEPT ![p] = Checked(flights[p], schema)]
  /\ UNCHANGED <<schema, rows, nextId, now, cookie, issued, req, res, pre,
                 introspections>>

(* The introspection query rejects: the handler's catch answers 401 and    *)
(* the cache stays as it is.                                                *)
IntrospectFailed(p) ==
  /\ flights[p].pc = "introspect"
  /\ introspections < MaxIntrospections
  /\ flights' = [flights EXCEPT ![p] = Failed(flights[p], 401)]
  /\ UNCHANGED <<schema, appUserColumnsCache, rows, nextId, now, cookie,
                 issued, req, res, pre, introspections, cacheWrites>>

(* selectUser("email = $1") resolves *)
Select(p) ==
  /\ flights[p].pc = "select"
  /\ flights' =
       [flights EXCEPT
          ![p] = [flights[p] EXCEPT
                    !.pc = "write",
                    !.user = selectUser(rows, flights[p].columns, "email",
                                        flights[p].idToken.claims.email,
                                        FALSE).user]]
  /\ UNCHANGED <<schema, appUserColumnsCache, rows, nextId, now, cookie,
                 issued, req, res, pre, introspections, cacheWrites>>

(* The update or the insert of upsertUserByEmail resolves, built from the  *)
(* record the select returned; without an access token the handler then    *)
(* answers.                                                                 *)
Write(p) ==
  LET flight == flights[p]
      claims == flight.idToken.claims
      user == flight.user
      sets == upsertUpdates(flight.columns, user, claims.name, claims.picture,
                            claims.sub, deriveUsername(claims))
      inserts == user = NoUser
      refused == inserts /\ ~UniqueEmail(rows, claims.email)
      table ==
        IF inserts
        THEN QueryInsert(rows, schema,
                         upsertInsertValues(flight.columns, claims.email,
                                            claims.name, claims.picture,
                                            claims.sub,
                                            deriveUsername(claims)), nextId)
        ELSE IF DOMAIN sets = {} THEN rows
        ELSE QueryUpdate(rows, sets, user["id"])
      after ==
        IF inserts
        THEN normalizeUser(QueryFirst(table, flight.columns, "id", Id(nextId)))
        ELSE IF DOMAIN sets = {} THEN user
        ELSE normalizeUser(QueryFirst(table, flight.columns, "id", user["id"]))
      written ==
        [flight EXCEPT
           !.clobbered = ~inserts /\ Clobbers(flight.edits, sets)]
  IN /\ flight.pc = "write"
     /\ IF refused
        THEN /\ flights' = [flights EXCEPT ![p] = Failed(flight, 401)]
             /\ UNCHANGED <<rows, nextId, cookie, issued>>
        ELSE /\ rows' = table
             /\ nextId' = IF inserts THEN nextId + 1 ELSE nextId
             /\ IF flight.response = NoResponse
                THEN Finished(p, written, after)
                ELSE /\ flights' = [flights EXCEPT
                                      ![p] = [written EXCEPT !.pc = "fetch",
                                                             !.user = after]]
                     /\ UNCHANGED <<cookie, issued>>
     /\ UNCHANGED <<schema, appUserColumnsCache, now, req, res, pre,
                    introspections, cacheWrites>>

(* fetchPeopleProfile resolves and buildPrefillUpdates runs on the record  *)
(* the upsert returned.                                                     *)
Fetch(p) ==
  LET flight == flights[p]
      fetched == fetchPeopleProfile(AccessToken, flight.response)
      updates == buildPrefillUpdates(flight.user, fetched.people)
  IN /\ flight.pc = "fetch"
     /\ IF ~fetched.ok
        THEN /\ flights' = [flights EXCEPT ![p] = Failed(flight, 401)]
             /\ UNCHANGED <<cookie, issued>>
        ELSE IF DOMAIN updates = {}
        THEN Finished(p, flight, flight.user)
        ELSE /\ flights' = [flights EXCEPT ![p].pc = "prefill"]
             /\ UNCHANGED <<cookie, issued>>
     /\ UNCHANGED <<schema, appUserColumnsCache, rows, nextId, now, req, res,
                    pre, introspections, cacheWrites>>

(* updateUserProfile(user.id, updates) resolves and the handler answers *)
Prefill(p) ==
  LET flight == flights[p]
      fetched == fetchPeopleProfile(AccessToken, flight.response)
      updates == buildPrefillUpdates(flight.user, fetched.people)
      sets == profileSets(flight.columns, updates)
      filled == updateUserProfile(rows, flight.columns, flight.user["id"],
                                  updates, FALSE)
  IN /\ flight.pc = "prefill"
     /\ rows' = filled.table
     /\ Finished(p, [flight EXCEPT
                       !.clobbered = @ \/ Clobbers(flight.edits, sets)],
                 filled.user)
     /\ UNCHANGED <<schema, appUserColumnsCache, nextId, now, req, res, pre,
                    introspections, cacheWrites>>

RaceSchemas == {AllColumns, AllColumns \ {"username", "phone"}}

RaceIdTokens ==
  {IdToken(TRUE, Claims(Email1, "true", FullName, Picture, SubOf(Email1))),
   IdToken(TRUE, Claims(Email2, "true", NULL, NULL, SubOf(Email2)))}

RaceInit == InitOn(RaceSchemas)

(* Overlapping logins without enrichment *)
RaceNext ==
  \/ \E p \in Slots : Begin(p, RaceIdTokens, {})
  \/ \E p \in Slots : GetColumns(p)
  \/ \E p \in Slots : Introspected(p)
  \/ \E p \in Slots : IntrospectFailed(p)
  \/ \E p \in Slots : Select(p)
  \/ \E p \in Slots : Write(p)

RaceSpec == RaceInit /\ [][RaceNext]_vars

EditIdTokens ==
  {IdToken(TRUE, Claims(Email1, "true", FullName, Picture, SubOf(Email1)))}

EditResponses ==
  {[kind |-> "ok",
    data |-> [phoneNumbers |-> <<<<"7">>>>,
              addresses |-> <<Address(NULL, <<"u", "s">>, NULL)>>]]}

EditBodies == {[username |-> <<"u">>], [phone |-> <<"5">>]}

EditInit == InitOn({AllColumns})

(* One login at a time, with and without enrichment, interleaved with the  *)
(* profile edits of the user it signs in.                                   *)
EditNext ==
  \/ Begin(1, EditIdTokens, EditResponses)
  \/ GetColumns(1)
  \/ Introspected(1)
  \/ Select(1)
  \/ Write(1)
  \/ Fetch(1)
  \/ Prefill(1)
  \/ Profile(EditBodies)
  \/ Receive

EditSpec == EditInit /\ [][EditNext]_vars

----------------------------------------------------------------------------
(* Properties.  Each is stated over the request on record (req), its       *)
(* response (res), the table before it (pre) and the table after (rows).   *)

Answered(op) == req.op = op

(* The rows of pre, by position, that carry the given email *)
RowsOf(table, email) == {i \in 1..Len(table) : table[i]["email"] = email}

UnverifiedLogin ==
  /\ Answered("auth")
  /\ req.idToken # NoIdToken
  /\ req.idToken.valid
  /\ req.idToken.claims.email_verified \in {"false", "absent"}

(* C1: a POST /auth/google whose verified claims carry email_verified =    *)
(* false, or no such flag, is answered 401, leaves every app_users row as  *)
(* it was and sets no session cookie.                                      *)
C1_UnverifiedRejected ==
  UnverifiedLogin =>
    /\ res.status = 401
    /\ rows = pre
    /\ res.cookie = NoToken

(* An unverified login for an email that already has a row *)
C1_Witness ==
  /\ UnverifiedLogin
  /\ RowsOf(pre, req.idToken.claims.email) # {}
  /\ res.status = 401

(* C2: a login never replaces a non-empty stored username: every row whose *)
(* username was non-empty before a POST /auth/google has the same username *)
(* after it, whatever the claims.                                          *)
C2_UsernameKept ==
  Answered("auth") =>
    \A i \in 1..Len(pre) :
      ("username" \in DOMAIN pre[i] /\ pre[i]["username"] \notin {NULL, <<>>})
        => rows[i]["username"] = pre[i]["username"]

(* A successful repeat login whose derived username differs from the       *)
(* username the user stored through /profile                               *)
C2_Witness ==
  /\ Answered("auth")
  /\ res.status = 200
  /\ schema = AllColumns
  /\ \E i \in RowsOf(pre, req.idToken.claims.email) :
       /\ pre[i]["username"] = <<"u">>
       /\ deriveUsername(req.idToken.claims) = <<"a", "b">>
       /\ rows[i]["name"] # pre[i]["name"]

ProfileTarget == {i \in 1..Len(pre) : pre[i]["id"] = req.token.uid}

EditableColumns == SeqToSet(allowedProfileFields) \cap schema

(* C3 as claimed: after a successful POST /profile, a column whose field   *)
(* is absent from the body or supplied as null keeps its stored value.     *)
C3_NullSuppressed ==
  (Answered("profile") /\ res.status = 200) =>
    \A i \in ProfileTarget : \A f \in EditableColumns :
      (f \notin DOMAIN req.body \/ req.body[f] = NULL)
        => rows[i][f] = pre[i][f]

(* C3: after a successful POST /profile, a column whose field is absent    *)
(* from the body keeps its stored value, and a column whose field is       *)
(* supplied as null is part of the update and holds null.                  *)
C3_AbsentKeptNullStored ==
  (Answered("profile") /\ res.status = 200) =>
    \A i \in ProfileTarget : \A f \in EditableColumns :
      /\ f \notin DOMAIN req.body => rows[i][f] = pre[i][f]
      /\ (f \in DOMAIN req.body /\ req.body[f] = NULL) => rows[i][f] = NULL

(* A profile request that clears a stored username with an explicit null *)
C3_Witness ==
  /\ Answered("profile")
  /\ res.status = 200
  /\ \E i \in ProfileTarget :
       /\ "username" \in EditableColumns
       /\ "username" \in DOMAIN req.body
       /\ req.body["username"] = NULL
       /\ pre[i]["username"] \notin {NULL, <<>>}
       /\ rows[i]["username"] = NULL


(* A cookie that verifySession does not accept at the time of the request: *)
(* none was sent, the signature is not the server's, or it has expired.    *)
InvalidCookie(token) == token.sig # "app" \/ now >= token.exp

(* C4: POST /profile answers 401 whenever the session cookie is missing or *)
(* invalid, changing no row, and answers 400 only when a store query of    *)
(* the request failed.                                                     *)
C4_ProfileStatus ==
  Answered("profile") =>
    /\ InvalidCookie(req.token) => (res.status = 401 /\ rows = pre)
    /\ res.status = 400 => req.failAt \in {"columns", "write"}

(* C5: a login that supplies an access token leaves phone and the six      *)
(* address columns of every row as they were wherever the stored value is  *)
(* non-blank (neither null nor empty), whatever the people-data response.  *)
C5_NonBlankKept ==
  (Answered("auth") /\ req.accessToken # NULL) =>
    \A i \in 1..Len(pre) :
      \A f \in ({"phone"} \cup addressColumns) \cap DOMAIN pre[i] :
        pre[i][f] \notin {NULL, <<>>} => rows[i][f] = pre[i][f]

(* An enriching login for a user with a stored phone and a blank country:  *)
(* the people-data response carries another phone and a country code, and  *)
(* only the country is filled in.                                          *)
C5_Witness ==
  /\ Answered("auth")
  /\ res.status = 200
  /\ schema = AllColumns
  /\ req.response.kind = "ok"
  /\ req.response.data.phoneNumbers # <<>>
  /\ \E i \in RowsOf(pre, req.idToken.claims.email) :
       /\ pre[i]["phone"] = <<"5">>
       /\ req.response.data.phoneNumbers[1] = <<"7">>
       /\ pre[i]["address_country"] = NULL
       /\ rows[i]["address_country"] = <<"U", "S">>

(* The login went as far as the enrichment step, and there the people-data *)
(* call threw or was answered with a non-success status, or the store      *)
(* rejects the enrichment update.                                          *)
EnrichmentFailed ==
  /\ Answered("auth")
  /\ req.idToken # NoIdToken
  /\ req.idToken.valid
  /\ req.idToken.claims.email_verified = "true"
  /\ req.accessToken # NULL
  /\ \/ req.failAt = "none" /\ req.response.kind \in {"throw", "notok"}
     \/ req.failAt = "prefill"

(* C6: when the enrichment step of a login fails, POST /auth/google still  *)
(* answers 200 with the session cookie set and the un-enriched user.       *)
C6_EnrichmentSwallowed ==
  EnrichmentFailed =>
    /\ res.status = 200
    /\ res.cookie # NoToken
    /\ res.user # NoUser


(* A POST /profile under a cookie the server issued and that has not       *)
(* expired, during which the store rejects no query                        *)
ProfileServed ==
  /\ Answered("profile")
  /\ ~InvalidCookie(req.token)
  /\ req.failAt = "none"

SuppliedEditable == SeqToSet(allowedProfileFields) \cap DOMAIN req.body

(* C7: for every schema, updateProfile succeeds although supplied editable *)
(* fields lack their column; each supplied editable field whose column     *)
(* exists holds the supplied value afterwards, and every other column of   *)
(* the row, and every other row, is as before.                             *)
C7_MissingColumnsDropped ==
  ProfileServed =>
    /\ res.status = 200
    /\ Len(rows) = Len(pre)
    /\ \A i \in 1..Len(pre) :
         /\ DOMAIN rows[i] = DOMAIN pre[i]
         /\ \A f \in DOMAIN pre[i] :
              rows[i][f] = IF i \in ProfileTarget /\ f \in SuppliedEditable
                           THEN req.body[f] ELSE pre[i][f]

(* A profile request, with another user's row in the table, that supplies  *)
(* one editable field whose column is missing and one whose column exists  *)
C7_Witness ==
  /\ ProfileServed
  /\ res.status = 200
  /\ Len(pre) = 2
  /\ \E f \in SuppliedEditable : f \notin schema
  /\ \E f \in SuppliedEditable : f \in schema
  /\ rows # pre

(* The user object the API returns for a stored row: the canonical fields, *)
(* null where the relation has no such column                              *)
Shown(row) ==
  [f \in SeqToSet(desiredUserFields) |->
     IF f \in DOMAIN row THEN row[f] ELSE NULL]

(* C8: a POST /profile with a valid session whose body has no editable     *)
(* field with an existing column (an empty body included) answers 200 with *)
(* the current user record and leaves the table as it was.                 *)
C8_EmptyBodyIdempotent ==
  (ProfileServed /\ SuppliedEditable \cap schema = {}) =>
    /\ res.status = 200
    /\ rows = pre
    /\ \E i \in ProfileTarget : res.user = Shown(rows[i])

(* A body that carries only keys outside the editable fields *)
C8_Witness ==
  /\ ProfileServed
  /\ res.status = 200
  /\ "role" \in DOMAIN req.body
  /\ SuppliedEditable = {}
  /\ "username" \in schema
  /\ \E i \in ProfileTarget : pre[i]["username"] = <<"u">>


(* A login without enrichment that succeeded: its response carries the     *)
(* record upsertUserByEmail returned.                                      *)
UpsertReturned ==
  /\ Answered("auth")
  /\ res.status = 200
  /\ req.accessToken = NULL

Upserted(f) ==
  CASE f = "name" -> req.idToken.claims.name
    [] f = "picture" -> req.idToken.claims.picture
    [] f = "google_sub" -> req.idToken.claims.sub
    [] f = "username" -> deriveUsername(req.idToken.claims)

(* The record a selectUser by the login's email returns right after it *)
ReadBack ==
  selectUser(rows, appUserColumnsCache, "email", req.idToken.claims.email,
             FALSE).user

(* The username the row of the login's email held before the login, null   *)
(* when there was no such row or no such column                            *)
StoredUsername ==
  LET hits == RowsOf(pre, req.idToken.claims.email)
  IN IF hits = {} \/ "username" \notin schema THEN NULL
     ELSE pre[CHOOSE i \in hits : TRUE]["username"]

(* C9 as claimed: the record read back equals the record the upsert        *)
(* returned, and its name, picture, google_sub and username are the        *)
(* upserted values (null where the column does not exist).                 *)
C9_RoundTrip ==
  UpsertReturned =>
    /\ ReadBack = res.user
    /\ \A f \in {"name", "picture", "google_sub", "username"} :
         res.user[f] = IF f \in schema THEN Upserted(f) ELSE NULL

(* C9: the record read back equals the record the upsert returned; its     *)
(* name, picture and google_sub are the upserted values (null where the    *)
(* column does not exist); its username is the upserted default when the   *)
(* stored username was unset or the email unseen, else the stored one.     *)
C9_RoundTripKeepsUsername ==
  UpsertReturned =>
    /\ ReadBack = res.user
    /\ \A f \in {"name", "picture", "google_sub"} :
         res.user[f] = IF f \in schema THEN Upserted(f) ELSE NULL
    /\ res.user["username"] =
         IF "username" \notin schema THEN NULL
         ELSE IF StoredUsername \notin {NULL, <<>>} THEN StoredUsername
         ELSE Upserted("username")

(* A repeat login for a row that holds a username other than the default   *)
(* now derived, with a name that differs from the stored one               *)
C9_Witness ==
  /\ UpsertReturned
  /\ schema = AllColumns
  /\ StoredUsername = <<"u">>
  /\ \E i \in RowsOf(pre, req.idToken.claims.email) :
       pre[i]["name"] # req.idToken.claims.name
  /\ res.user["name"] = req.idToken.claims.name

(* C10: a session cookie carries the expiry of its issue time plus the     *)
(* seven days; from that time on verifySession rejects it and GET /me      *)
(* under it answers 401 with no user.                                      *)
C10_ExpiredRejected ==
  /\ (Answered("auth") /\ res.status = 200) =>
       (res.cookie.sig = "app" /\ res.cookie.exp = now + 7)
  /\ (issued # NoToken /\ now >= issued.exp) => ~verifySession(issued, now).ok
  /\ (Answered("me") /\ req.token.sig = "app" /\ now >= req.token.exp) =>
       (res.status = 401 /\ res.user = NoUser)

(* GET /me at the very time of expiry, under the cookie of a stored user *)
C10_Witness ==
  /\ Answered("me")
  /\ req.token.sig = "app"
  /\ now = req.token.exp
  /\ \E i \in 1..Len(rows) : rows[i]["id"] = req.token.uid
  /\ res.status = 401


(* A successful login, without enrichment, for an email that had no row *)
FirstLogin ==
  /\ UpsertReturned
  /\ RowsOf(pre, req.idToken.claims.email) = {}

(* The name with every blank removed and every letter lower-cased, or,     *)
(* when that leaves nothing, the email up to its "@"                       *)
ExpectedUsername(claims) ==
  LET letters ==
        IF claims.name = NULL THEN <<>>
        ELSE SelectSeq(claims.name, LAMBDA c : c # " ")
      at == CHOOSE k \in 1..Len(claims.email) : claims.email[k] = "@"
  IN IF letters # <<>> THEN [k \in 1..Len(letters) |-> LowerOf(letters[k])]
     ELSE SubSeq(claims.email, 1, at - 1)

(* C11: a first successful login for an unseen email adds exactly one row; *)
(* where the columns exist its username is the verified name lower-cased   *)
(* with all whitespace removed (the local part of the email when the name  *)
(* is missing or blank; "Ada Lovelace" gives "adalovelace") and its role   *)
(* is "user"; the 200 response carries that row in full shape, with null   *)
(* for every optional field that was not supplied.                         *)
C11_FirstLoginCreatesUser ==
  FirstLogin =>
    LET claims == req.idToken.claims
        row == rows[Len(rows)]
    IN /\ Len(rows) = Len(pre) + 1
       /\ SubSeq(rows, 1, Len(pre)) = pre
       /\ RowsOf(rows, claims.email) = {Len(rows)}
       /\ "username" \in schema => row["username"] = ExpectedUsername(claims)
       /\ (claims.name = AdaLovelace /\ "username" \in schema) =>
            row["username"] =
              <<"a", "d", "a", "l", "o", "v", "e", "l", "a", "c", "e">>
       /\ "role" \in schema => row["role"] = <<"u", "s", "e", "r">>
       /\ res.user = Shown(row)
       /\ \A f \in {"bio", "phone"} \cup addressColumns : res.user[f] = NULL
       /\ claims.name = NULL => res.user["name"] = NULL
       /\ claims.picture = NULL => res.user["picture"] = NULL

(* The first login of Ada Lovelace, next to another user's row *)
C11_Witness ==
  /\ FirstLogin
  /\ schema = AllColumns
  /\ Len(pre) = 1
  /\ req.idToken.claims.name = AdaLovelace
  /\ rows[2]["username"] = <<"a", "d", "a", "l", "o", "v", "e", "l", "a", "c", "e">>


(* The identity assertion of the request is invalid, has no email or has   *)
(* an unverified email                                                     *)
AssertionRejected ==
  /\ req.idToken # NoIdToken
  /\ \/ ~req.idToken.valid
     \/ req.idToken.claims.email \in {NULL, <<>>}
     \/ req.idToken.claims.email_verified # "true"

(* C12: POST /auth/google answers 400 exactly when idToken is missing, 401 *)
(* only when the assertion is invalid, lacks an email or is unverified,    *)
(* and otherwise 200 with the user and the session cookie (500 being left  *)
(* to a persisted user without id).                                        *)
C12_StatusMap ==
  Answered("auth") =>
    /\ res.status = 400 <=> req.idToken = NoIdToken
    /\ res.status = 401 => AssertionRejected
    /\ res.status \notin {400, 401, 500} =>
         (res.status = 200 /\ res.user # NoUser /\ res.cookie # NoToken)


(* A login whose assertion was accepted and whose call of                  *)
(* upsertUserByEmail got the discovered columns                            *)
UpsertCalled ==
  /\ Answered("auth")
  /\ req.idToken # NoIdToken
  /\ ~AssertionRejected
  /\ appUserColumnsCache # NoCache

(* The columns lack id or email, or have google_sub while the claims have  *)
(* no external id                                                          *)
SchemaRefuses ==
  \/ "id" \notin schema
  \/ "email" \notin schema
  \/ "google_sub" \in schema /\ req.idToken.claims.sub \in {NULL, <<>>}

(* The call of upsertUserByEmail the login on record made *)
UpsertOnRecord(failSelect, failWrite) ==
  upsertUserByEmail(pre, appUserColumnsCache, nextId,
                    req.idToken.claims.email, req.idToken.claims.name,
                    req.idToken.claims.picture, req.idToken.claims.sub,
                    deriveUsername(req.idToken.claims), failSelect, failWrite)

(* C13: when the discovered columns lack id or email, or contain           *)
(* google_sub while no external id is supplied, upsertUserByEmail fails    *)
(* before it issues any statement on app_users, whatever the store would   *)
(* have answered; the rows are the same before and after the request.      *)
C13_SchemaErrorBeforeRows ==
  (UpsertCalled /\ SchemaRefuses) =>
    /\ \A failSelect, failWrite \in BOOLEAN :
         /\ ~UpsertOnRecord(failSelect, failWrite).ok
         /\ UpsertOnRecord(failSelect, failWrite).queries = 0
         /\ UpsertOnRecord(failSelect, failWrite).table = pre
    /\ res.status = 401
    /\ rows = pre

(* A login without external id for an email that has a row, against a      *)
(* relation with a google_sub column                                       *)
C13_Witness ==
  /\ UpsertCalled
  /\ schema = AllColumns
  /\ req.idToken.claims.sub = NULL
  /\ RowsOf(pre, req.idToken.claims.email) # {}
  /\ res.status = 401


CanonicalFields ==
  {"id", "email", "name", "picture", "google_sub", "username", "bio", "phone",
   "address_line1", "address_line2", "address_city", "address_state",
   "address_postal", "address_country", "role"}

(* C14: every user object in a response has all 15 canonical fields, for   *)
(* every schema; a field whose column does not exist is present with null. *)
C14_FullShape ==
  res.user # NoUser =>
    /\ CanonicalFields \subseteq DOMAIN res.user
    /\ Cardinality(DOMAIN res.user) = 15
    /\ \A f \in CanonicalFields \ schema : res.user[f] = NULL

(* A profile update answered with a user whose relation lacks four of the  *)
(* canonical columns                                                       *)
C14_Witness ==
  /\ Answered("profile")
  /\ res.user # NoUser
  /\ rows # pre
  /\ {"name", "picture", "address_country", "bio"} \cap schema = {}
  /\ res.user["bio"] = NULL


(* A request under a cookie the server issued and that has not expired,    *)
(* during which the store rejects no query                                 *)
UnexpiredSession(op) ==
  /\ Answered(op)
  /\ req.token.sig = "app"
  /\ now < req.token.exp
  /\ req.failAt = "none"

----------------------------------------------------------------------------
(* Properties of overlapping requests, stated over the flights *)

FirstLoginOf(p, email) ==
  /\ flights[p].pc \in {"write", "done"}
  /\ flights[p].columns # NoCache
  /\ flights[p].idToken.claims.email = email

(* C17: after any interleaving of logins, two overlapping first logins for *)
(* the same new email included, no two rows of the table hold the same     *)
(* email; the insert that comes second is refused and its request fails.   *)
C17_EmailUnique ==
  /\ \A i, j \in 1..Len(rows) : rows[i]["email"] = rows[j]["email"] => i = j
  /\ \A p \in Slots :
       flights[p].pc = "done" /\ flights[p].status = 200 =>
         Cardinality(RowsOf(rows, flights[p].idToken.claims.email)) = 1

(* Two first logins for the same new email both found no row; one has      *)
(* inserted and answered 200, the other's insert was refused and it        *)
(* answered 401 without a record.                                          *)
C17_Witness ==
  \E p, q \in Slots :
    /\ p # q
    /\ FirstLoginOf(p, Email1) /\ FirstLoginOf(q, Email1)
    /\ flights[p].pc = "done" /\ flights[p].status = 200
    /\ flights[q].pc = "done" /\ flights[q].status = 401
    /\ flights[q].user = NoUser
    /\ Cardinality(RowsOf(rows, Email1)) = 1
    /\ Len(rows) = 1

(* C18: a login that interleaves with POST /profile for the same user      *)
(* never replaces what /profile stored: a non-blank username, phone or     *)
(* address field stored after the login read the row and before the        *)
(* login's own update is still in the row after that update.               *)
C18_EditsSurvive == \A p \in Slots : ~flights[p].clobbered

----------------------------------------------------------------------------
(* Frame of the writes *)

(* The login on record reached the lookup of upsertUserByEmail and found a *)
(* row for its email.                                                      *)
ReturningLogin ==
  /\ UpsertCalled
  /\ ~SchemaRefuses
  /\ req.failAt \notin {"columns", "select"}
  /\ RowsOf(pre, req.idToken.claims.email) # {}

Existing == CHOOSE i \in RowsOf(pre, req.idToken.claims.email) : TRUE

(* No optional column applies to the login on record *)
NothingToUpdate ==
  /\ "name" \notin schema
  /\ "picture" \notin schema
  /\ "google_sub" \notin schema \/ req.idToken.claims.sub = NULL
  /\ \/ "username" \notin schema
     \/ pre[Existing]["username"] \notin {NULL, <<>>}

(* C19: when upsertUserByEmail finds a row for the email it overwrites     *)
(* name and picture with the incoming values, null included, where those   *)
(* columns exist, google_sub only with a non-null external id, username    *)
(* with the default only when the stored one is null or empty; every other *)
(* column of the row and every other row stay as they were; when no        *)
(* optional column applies the existing record is returned and no write is *)
(* issued, so a store that rejects writes does not fail the login.         *)
C19_ExistingRowUpdate ==
  ReturningLogin =>
    LET claims == req.idToken.claims
        old == pre[Existing]
        new == rows[Existing]
    IN /\ Len(rows) = Len(pre)
       /\ \A j \in 1..Len(pre) : j # Existing => rows[j] = pre[j]
       /\ NothingToUpdate =>
            /\ res.status = 200
            /\ rows = pre
            /\ res.user = Shown(old)
       /\ (~NothingToUpdate /\ req.failAt = "write") =>
            /\ res.status = 401
            /\ rows = pre
       /\ (~NothingToUpdate /\ req.failAt # "write") =>
            /\ res.status = 200
            /\ res.user = Shown(new)
            /\ "name" \in schema => new["name"] = claims.name
            /\ "picture" \in schema => new["picture"] = claims.picture
            /\ "google_sub" \in schema =>
                 new["google_sub"] =
                   IF claims.sub # NULL THEN claims.sub ELSE old["google_sub"]
            /\ "username" \in schema =>
                 new["username"] =
                   IF old["username"] \in {NULL, <<>>}
                   THEN ExpectedUsername(claims) ELSE old["username"]
            /\ \A f \in schema \ {"name", "picture", "google_sub", "username"} :
                 new[f] = old[f]

(* A login without name and picture for a user whose row holds both: the   *)
(* two are set to null, the username, role and bio of the row stay.        *)
C19_Witness ==
  /\ ReturningLogin
  /\ schema = AllColumns
  /\ res.status = 200
  /\ req.idToken.claims.name = NULL
  /\ pre[Existing]["name"] = AdaLovelace
  /\ rows[Existing]["name"] = NULL
  /\ rows[Existing]["picture"] = NULL
  /\ rows[Existing]["username"] = <<"u">>
  /\ rows[Existing]["role"] = Administrator

(* The columns a login may write in an existing row *)
LoginWritable ==
  {"name", "picture", "google_sub", "username", "phone"} \cup addressColumns

(* C20: no request deletes a row or changes the id, email or role of an    *)
(* existing row; POST /profile changes no column outside the nine editable *)
(* ones whatever keys its body has, a login changes only name, picture,    *)
(* google_sub, username and the enrichment fields, and a row is inserted   *)
(* with the role "user".                                                   *)
C20_Frame ==
  [][/\ Len(rows') >= Len(rows)
     /\ \A i \in 1..Len(rows) :
          /\ \A f \in schema \cap {"id", "email", "role"} :
               rows'[i][f] = rows[i][f]
          /\ req'.op = "profile" =>
               \A f \in schema \ SeqToSet(allowedProfileFields) :
                 rows'[i][f] = rows[i][f]
          /\ req'.op = "auth" =>
               \A f \in schema \ LoginWritable : rows'[i][f] = rows[i][f]
     /\ req'.op = "profile" => Len(rows') = Len(rows)
     /\ \A i \in (Len(rows) + 1)..Len(rows') :
          "role" \in schema => rows'[i]["role"] = <<"u", "s", "e", "r">>]_vars

(* A profile edit whose body names role, email, id, google_sub, name and   *)
(* picture beside a username was answered 200 for a user provisioned as    *)
(* administrator: the username is stored, the rest of the row is as it     *)
(* was.                                                                    *)
C20_Witness ==
  /\ Answered("profile")
  /\ res.status = 200
  /\ schema = AllColumns
  /\ "email" \in DOMAIN req.body
  /\ ProfileTarget = {1}
  /\ pre[1]["role"] = Administrator
  /\ pre[1]["username"] # <<"u">>
  /\ rows[1]["username"] = <<"u">>
  /\ rows[1]["role"] = Administrator
  /\ rows[1]["email"] = Email1
  /\ rows[1]["name"] = pre[1]["name"]

----------------------------------------------------------------------------
(* Session isolation *)

(* The request on record is a session read or a profile edit *)
SessionRequest == Answered("me") \/ Answered("profile")

(* The rows the session of the request on record names *)
Own(table) == {i \in 1..Len(table) : table[i]["id"] = req.token.uid}

(* C21: GET /me and POST /profile read and write only the row whose id is  *)
(* the uid of the verified session: every other row is as it was, the      *)
(* user returned is that row, a request whose session does not verify      *)
(* changes and returns nothing, and a verified session for an id the table *)
(* does not hold changes and returns nothing and, the store answering its  *)
(* queries, is answered 401.                                               *)
C21_SessionIsolation ==
  SessionRequest =>
    /\ Len(rows) = Len(pre)
    /\ \A i \in 1..Len(pre) : i \notin Own(pre) => rows[i] = pre[i]
    /\ res.user # NoUser =>
         /\ ~InvalidCookie(req.token)
         /\ res.status = 200
         /\ res.user["id"] = req.token.uid
         /\ \E i \in Own(rows) : res.user = Shown(rows[i])
    /\ InvalidCookie(req.token) => rows = pre /\ res.user = NoUser
    /\ (~InvalidCookie(req.token) /\ Own(pre) = {}) =>
         /\ rows = pre
         /\ res.user = NoUser
         /\ res.status # 200
         /\ req.failAt = "none" => res.status = 401

(* The second user edits the profile with their session while the row of   *)
(* another user is in the table: their own row takes the edit, the other   *)
(* row is as it was, and the body's id naming the other row has no effect. *)
C21_Witness ==
  /\ Answered("profile")
  /\ res.status = 200
  /\ Len(pre) = 2
  /\ Own(pre) = {2}
  /\ "id" \in DOMAIN req.body
  /\ rows[2] # pre[2]
  /\ rows[1] = pre[1]
  /\ res.user["email"] # pre[1]["email"]

(* A verified session for an id the table does not hold was answered 401   *)
(* by POST /profile with a non-empty edit, next to another user's row.     *)
OrphanRefused ==
  /\ Answered("profile")
  /\ req.token = Orphan
  /\ req.body # EmptyBody
  /\ Len(pre) = 1
  /\ res.status = 401
  /\ rows = pre

====
